---------------------------- MODULE Spec2Model ----------------------------
(***************************************************************************)
(* MqttManager of src/src/mqtt/rumqtt.rs: the publish queue with bounded   *)
(* retry, the subscription registry, and the event dispatch loop with      *)
(* resubscription on a resumed session.                                    *)
(*                                                                         *)
(* Processes: the application callers (subscribe, enqueue_publish,         *)
(* start_event_loop), the queue tasks (process_queue) and the dispatch     *)
(* tasks (the closure spawned by start_event_loop).  Every await of the    *)
(* source that can suspend a task is a step boundary.                      *)
(***************************************************************************)
EXTENDS Naturals, Sequences, FiniteSets

(***************************************************************************)
(* Bounds of the model.                                                    *)
(***************************************************************************)
\* Number of enqueue_publish calls explored (caps msg_counter).
MaxEnqueue == 3
\* Capacity of the publish channel.  The source uses mpsc::channel(100)
\* (rumqtt.rs:43); the model explores a small capacity so that "channel
\* full" is reached.
ChannelCapacity == 2
\* Capacity of the client's request channel.  The source uses
\* AsyncClient::new(mqttoptions, 10) (rumqtt.rs:42).
RequestCapacity == 2
\* Number of start_event_loop calls explored.
MaxStarts == 2

(***************************************************************************)
(* Program constants.                                                      *)
(***************************************************************************)
\* rumqtt.rs:97  `if msg.retries < 5`
MaxRetries == 5

Callers == {"c1", "c2"}
Tasks == 1..MaxStarts
Topics == {"a/b", "x/y"}
Payloads == {<<1>>}
QoS == {"AtMostOnce", "AtLeastOnce", "ExactlyOnce"}
\* Topics and quality of service of the enqueue_publish calls explored.
PublishTopics == {"a/b"}
PublishQoS == {"ExactlyOnce"}

NoHolder == "none"
NoTask == 0

VARIABLES
    \* ---- MqttManager fields (shared by all clones) ----
    msg_counter,        \* msg_counter: Arc<Mutex<u64>>, the value
    counter_lock,       \* holder of the msg_counter mutex (a caller) or NoHolder
    chan,               \* the mpsc channel tx/rx: Seq of PendingMessage
    rx_lock,            \* holder of the rx mutex (a queue task) or NoTask
    subscribed_topics,  \* subscribed_topics: Arc<Mutex<HashSet<String>>>
    requests,           \* the AsyncClient -> EventLoop request channel
    eventloop_lock,     \* holder of the eventloop mutex (a dispatch task) or NoTask
    connected,          \* the EventLoop has a live network connection
    sent_subs,          \* subscribe requests written to the broker, SubAck pending
    started,            \* number of start_event_loop calls made
    \* ---- callers ----
    cpc, cmsg, ctopic,
    \* ---- queue tasks (process_queue) ----
    qpc, qmsg,
    \* ---- dispatch tasks ----
    dpc, devent, dtodo,
    \* ---- history (observations only, never read by the program) ----
    id_log,             \* ids in the order enqueue_publish calls took them
    attempts,           \* publish attempts made per message id
    published,          \* ids whose publish returned Ok
    dropped,            \* ids dropped after the retry ceiling
    ahead,              \* per retried id: ids that were in the channel when it
                        \* was re-enqueued and have not been attempted since
    sub_ok,             \* topics for which a subscribe call returned Ok
    sub_err,            \* topics for which a subscribe call returned Err
    issued,             \* topics whose subscribe request the client accepted
    dsnap,              \* SubscriptionSet at the moment resubscribe_all read it
    resub_count         \* resubscribe requests per topic for the current event

mgr_vars == <<msg_counter, counter_lock, chan, rx_lock, subscribed_topics,
              requests, eventloop_lock, connected, sent_subs, started>>
caller_vars == <<cpc, cmsg, ctopic>>
queue_vars == <<qpc, qmsg>>
dispatch_vars == <<dpc, devent, dtodo>>
hist_pub == <<id_log, attempts, published, dropped, ahead>>
hist_sub == <<sub_ok, sub_err, issued>>
hist_disp == <<dsnap, resub_count>>
vars == <<mgr_vars, caller_vars, queue_vars, dispatch_vars,
          hist_pub, hist_sub, hist_disp>>

(***************************************************************************)
(* Data.                                                                   *)
(***************************************************************************)
\* struct PendingMessage
PendingMessage(topic, payload, qos, retries, id) ==
    [topic |-> topic, payload |-> payload, qos |-> qos,
     retries |-> retries, id |-> id]

\* "no message in hand" (Rust: the local does not exist)
NoMsg == PendingMessage("", <<>>, "", 0, 0)

\* rumqttc::Event, as far as the manager inspects it.
Event(dir, packet, sp) == [dir |-> dir, packet |-> packet, session_present |-> sp]
NoEvent == Event("", "", FALSE)
ConnAck(sp) == Event("Incoming", "ConnAck", sp)
IncomingPublish == Event("Incoming", "Publish", FALSE)
IncomingSubAck == Event("Incoming", "SubAck", FALSE)
OutgoingEvent == Event("Outgoing", "Request", FALSE)

\* rumqttc::Request put on the client's request channel.
Request(kind, topic, qos) == [kind |-> kind, topic |-> topic, qos |-> qos]

ZeroCount == [t \in Topics |-> 0]

\* History only: the ids of the messages in the channel.
ChannelIds == {chan[j].id : j \in 1..Len(chan)}

\* History only: the message with this id has had an attempt.
AheadAfterAttempt(id) ==
    [i \in 1..MaxEnqueue |-> IF i = id THEN {} ELSE ahead[i] \ {id}]

(***************************************************************************)
(* Pure pieces of the handlers.                                            *)
(***************************************************************************)
\* enqueue_publish: `*counter += 1`
NextIdStuck(counter) == counter
NextId(counter) == counter + 1

\* enqueue_publish: the PendingMessage literal, retries: 0, id: *counter
NewMessage(topic, payload, qos, counter) ==
    PendingMessage(topic, payload, qos, 0, counter)

\* tx.send(msg): append at the tail of the channel
SendDedup(ch, msg) ==
    IF \E i \in 1..Len(ch) : ch[i].topic = msg.topic /\ ch[i].payload = msg.payload
    THEN ch ELSE Append(ch, msg)
SendFront(ch, msg) == <<msg>> \o ch
Send(ch, msg) == Append(ch, msg)

\* process_queue: `if msg.retries < 5`
ShouldRetryOff(msg) == msg.retries <= MaxRetries
ShouldRetry(msg) == msg.retries < MaxRetries

\* process_queue: `msg.retries += 1`
RetriedTwice(msg) == [msg EXCEPT !.retries = @ + 2]
Retried(msg) == [msg EXCEPT !.retries = @ + 1]

\* subscribe: `self.client.subscribe(topic, qos).await?` touches the set
\* neither on Ok nor on Err.
SubsAfterRequestOptimistic(subs, topic) == subs \cup {topic}
SubsAfterRequest(subs, topic) == subs

\* subscribe: `subs.insert(topic.to_string())`
InsertSkipped(subs, topic) == subs
InsertReplace(subs, topic) == {topic}
Insert(subs, topic) == subs \cup {topic}

\* resubscribe_all: `subs.iter().cloned().collect()`
Snapshot(subs) == subs

\* resubscribe_all: the for loop moves to the next topic of the Vec
RemainingNone(todo, topic) == {}
Remaining(todo, topic) == todo \ {topic}

\* start_event_loop: `if connack.session_present` on Incoming(ConnAck)
NeedsResubscribeAnyConnAck(event) == event.packet = "ConnAck"
NeedsResubscribe(event) ==
    event.dir = "Incoming" /\ event.packet = "ConnAck" /\ event.session_present

\* resubscribe_all: QoS::AtLeastOnce
ResubscribeQoSExactlyOnce == "ExactlyOnce"
ResubscribeQoS == "AtLeastOnce"

(***************************************************************************)
(* Initial state: MqttManager::new, no task spawned.                       *)
(***************************************************************************)
Init ==
    /\ msg_counter = 0
    /\ counter_lock = NoHolder
    /\ chan = <<>>
    /\ rx_lock = NoTask
    /\ subscribed_topics = {}
    /\ requests = <<>>
    /\ eventloop_lock = NoTask
    /\ connected = FALSE
    /\ sent_subs = {}
    /\ started = 0
    /\ cpc = [c \in Callers |-> "idle"]
    /\ cmsg = [c \in Callers |-> NoMsg]
    /\ ctopic = [c \in Callers |-> ""]
    /\ qpc = [k \in Tasks |-> "off"]
    /\ qmsg = [k \in Tasks |-> NoMsg]
    /\ dpc = [k \in Tasks |-> "off"]
    /\ devent = [k \in Tasks |-> NoEvent]
    /\ dtodo = [k \in Tasks |-> {}]
    /\ id_log = <<>>
    /\ attempts = [i \in 1..MaxEnqueue |-> 0]
    /\ published = {}
    /\ dropped = {}
    /\ ahead = [i \in 1..MaxEnqueue |-> {}]
    /\ sub_ok = {}
    /\ sub_err = {}
    /\ issued = {}
    /\ dsnap = [k \in Tasks |-> {}]
    /\ resub_count = [k \in Tasks |-> ZeroCount]


(***************************************************************************)
(* enqueue_publish (rumqtt.rs:65-76).                                      *)
(***************************************************************************)
\* The counter guard is dropped before the send.
EnqueueTakeIdEarlyRelease(c, topic, payload, qos) ==
    /\ cpc[c] = "idle"
    /\ counter_lock = NoHolder
    /\ msg_counter < MaxEnqueue
    /\ counter_lock' = NoHolder
    /\ msg_counter' = NextId(msg_counter)
    /\ cmsg' = [cmsg EXCEPT ![c] = NewMessage(topic, payload, qos, msg_counter')]
    /\ cpc' = [cpc EXCEPT ![c] = "enq_send"]
    /\ id_log' = Append(id_log, msg_counter')
    /\ UNCHANGED <<chan, rx_lock, subscribed_topics, requests, eventloop_lock,
                   connected, sent_subs, started, ctopic, queue_vars,
                   dispatch_vars, attempts, published, dropped, ahead,
                   hist_sub, hist_disp>>
\* Lines 66-74: take the msg_counter lock, increment, build the message.
\* The guard (the MutexGuard `counter`) lives until the function returns.
EnqueueTakeId(c, topic, payload, qos) ==
    /\ cpc[c] = "idle"
    /\ counter_lock = NoHolder
    /\ msg_counter < MaxEnqueue
    /\ counter_lock' = c
    /\ msg_counter' = NextId(msg_counter)
    /\ cmsg' = [cmsg EXCEPT ![c] = NewMessage(topic, payload, qos, msg_counter')]
    /\ cpc' = [cpc EXCEPT ![c] = "enq_send"]
    /\ id_log' = Append(id_log, msg_counter')
    /\ UNCHANGED <<chan, rx_lock, subscribed_topics, requests, eventloop_lock,
                   connected, sent_subs, started, ctopic, queue_vars,
                   dispatch_vars, attempts, published, dropped, ahead,
                   hist_sub, hist_disp>>

\* A send that does not wait for a free slot.
EnqueueSendUnbounded(c) ==
    /\ cpc[c] = "enq_send"
    /\ chan' = Send(chan, cmsg[c])
    /\ counter_lock' = NoHolder
    /\ cmsg' = [cmsg EXCEPT ![c] = NoMsg]
    /\ cpc' = [cpc EXCEPT ![c] = "idle"]
    /\ UNCHANGED <<msg_counter, rx_lock, subscribed_topics, requests,
                   eventloop_lock, connected, sent_subs, started, ctopic,
                   queue_vars, dispatch_vars, hist_pub, hist_sub, hist_disp>>
\* Line 75-76: `let _ = self.tx.send(msg).await;` waits for a free slot,
\* then the guard is dropped and the call returns.
EnqueueSend(c) ==
    /\ cpc[c] = "enq_send"
    /\ Len(chan) < ChannelCapacity
    /\ chan' = Send(chan, cmsg[c])
    /\ counter_lock' = NoHolder
    /\ cmsg' = [cmsg EXCEPT ![c] = NoMsg]
    /\ cpc' = [cpc EXCEPT ![c] = "idle"]
    /\ UNCHANGED <<msg_counter, rx_lock, subscribed_topics, requests,
                   eventloop_lock, connected, sent_subs, started, ctopic,
                   queue_vars, dispatch_vars, hist_pub, hist_sub, hist_disp>>

(***************************************************************************)
(* start_event_loop (rumqtt.rs:131-175): spawns one queue task and one     *)
(* dispatch task per call.                                                 *)
(***************************************************************************)
\* The k-th call.
StartEventLoop(k) ==
    /\ started = k - 1
    /\ started' = k
    /\ qpc' = [qpc EXCEPT ![k] = "lock"]
    /\ dpc' = [dpc EXCEPT ![k] = "lock"]
    /\ UNCHANGED <<msg_counter, counter_lock, chan, rx_lock, subscribed_topics,
                   requests, eventloop_lock, connected, sent_subs, caller_vars,
                   qmsg, devent, dtodo, hist_pub, hist_sub, hist_disp>>

(***************************************************************************)
(* process_queue (rumqtt.rs:79-112).                                       *)
(***************************************************************************)
\* Line 84: `rx.lock().await`
QLock(k) ==
    /\ qpc[k] = "lock"
    /\ rx_lock = NoTask
    /\ rx_lock' = k
    /\ qpc' = [qpc EXCEPT ![k] = "recv"]
    /\ UNCHANGED <<msg_counter, counter_lock, chan, subscribed_topics, requests,
                   eventloop_lock, connected, sent_subs, started, caller_vars,
                   qmsg, dispatch_vars, hist_pub, hist_sub, hist_disp>>

\* Lines 85-86: `rx_lock.recv().await` returns Some(msg) once the channel is
\* not empty; the rx guard is held while waiting and dropped afterwards.
\* recv() never returns None: the task's own manager clone keeps a Sender.
QRecv(k) ==
    /\ qpc[k] = "recv"
    /\ chan # <<>>
    /\ qmsg' = [qmsg EXCEPT ![k] = Head(chan)]
    /\ chan' = Tail(chan)
    /\ rx_lock' = NoTask
    /\ qpc' = [qpc EXCEPT ![k] = "publish"]
    /\ UNCHANGED <<msg_counter, counter_lock, subscribed_topics, requests,
                   eventloop_lock, connected, sent_subs, started, caller_vars,
                   dispatch_vars, hist_pub, hist_sub, hist_disp>>

\* Lines 88-90, 104-106: client.publish(...) returns Ok once the request is
\* on the client's request channel (it waits while that channel is full).
QPublishOk(k) ==
    /\ qpc[k] = "publish"
    /\ Len(requests) < RequestCapacity
    /\ requests' = Append(requests, Request("Publish", qmsg[k].topic, qmsg[k].qos))
    /\ attempts' = [attempts EXCEPT ![qmsg[k].id] = @ + 1]
    /\ published' = published \cup {qmsg[k].id}
    /\ ahead' = AheadAfterAttempt(qmsg[k].id)
    /\ qmsg' = [qmsg EXCEPT ![k] = NoMsg]
    /\ qpc' = [qpc EXCEPT ![k] = "throttle"]
    /\ UNCHANGED <<msg_counter, counter_lock, chan, rx_lock, subscribed_topics,
                   eventloop_lock, connected, sent_subs, started, caller_vars,
                   dispatch_vars, id_log, dropped, hist_sub, hist_disp>>

\* Lines 92-103: client.publish(...) returns Err.
QPublishErr(k) ==
    /\ qpc[k] = "publish"
    /\ attempts' = [attempts EXCEPT ![qmsg[k].id] = @ + 1]
    /\ ahead' = AheadAfterAttempt(qmsg[k].id)
    /\ IF ShouldRetry(qmsg[k])
       THEN /\ qmsg' = [qmsg EXCEPT ![k] = Retried(qmsg[k])]
            /\ qpc' = [qpc EXCEPT ![k] = "backoff"]
            /\ dropped' = dropped
       ELSE /\ qmsg' = [qmsg EXCEPT ![k] = NoMsg]
            /\ qpc' = [qpc EXCEPT ![k] = "lock"]
            /\ dropped' = dropped \cup {qmsg[k].id}
    /\ UNCHANGED <<mgr_vars, caller_vars, dispatch_vars, id_log, published,
                   hist_sub, hist_disp>>

\* Lines 99-100: after the 1 s sleep, `let _ = self.tx.send(msg).await;`
\* waits for a free slot of the channel this task drains.
QResend(k) ==
    /\ qpc[k] = "backoff"
    /\ Len(chan) < ChannelCapacity
    /\ chan' = Send(chan, qmsg[k])
    /\ ahead' = [ahead EXCEPT ![qmsg[k].id] = ChannelIds]
    /\ qmsg' = [qmsg EXCEPT ![k] = NoMsg]
    /\ qpc' = [qpc EXCEPT ![k] = "lock"]
    /\ UNCHANGED <<msg_counter, counter_lock, rx_lock, subscribed_topics,
                   requests, eventloop_lock, connected, sent_subs, started,
                   caller_vars, dispatch_vars, id_log, attempts, published,
                   dropped, hist_sub, hist_disp>>

\* Line 106: the 50 ms throttle sleep ends.
QThrottle(k) ==
    /\ qpc[k] = "throttle"
    /\ qpc' = [qpc EXCEPT ![k] = "lock"]
    /\ UNCHANGED <<mgr_vars, caller_vars, qmsg, dispatch_vars, hist_pub,
                   hist_sub, hist_disp>>


(***************************************************************************)
(* subscribe (rumqtt.rs:56-62).                                            *)
(***************************************************************************)
\* Line 57, Ok: the client accepted the request (it waits while the request
\* channel is full); the broker has not seen it yet.
SubscribeRequestOk(c, topic, qos) ==
    /\ cpc[c] = "idle"
    /\ Len(requests) < RequestCapacity
    /\ requests' = Append(requests, Request("Subscribe", topic, qos))
    /\ subscribed_topics' = SubsAfterRequest(subscribed_topics, topic)
    /\ issued' = issued \cup {topic}
    /\ ctopic' = [ctopic EXCEPT ![c] = topic]
    /\ cpc' = [cpc EXCEPT ![c] = "sub_insert"]
    /\ UNCHANGED <<msg_counter, counter_lock, chan, rx_lock, eventloop_lock,
                   connected, sent_subs, started, cmsg, queue_vars,
                   dispatch_vars, hist_pub, sub_ok, sub_err, hist_disp>>

\* Line 57, Err: `?` returns the error to the caller.
SubscribeRequestErrRequeued(c, topic, qos) ==
    /\ cpc[c] = "idle"
    /\ Len(requests) < RequestCapacity
    /\ requests' = Append(requests, Request("Subscribe", topic, qos))
    /\ sub_err' = sub_err \cup {topic}
    /\ UNCHANGED <<msg_counter, counter_lock, chan, rx_lock, subscribed_topics,
                   eventloop_lock, connected, sent_subs, started, caller_vars,
                   queue_vars, dispatch_vars, hist_pub, sub_ok, issued,
                   hist_disp>>
SubscribeRequestErr(c, topic, qos) ==
    /\ cpc[c] = "idle"
    /\ subscribed_topics' = SubsAfterRequest(subscribed_topics, topic)
    /\ sub_err' = sub_err \cup {topic}
    /\ UNCHANGED <<msg_counter, counter_lock, chan, rx_lock, requests,
                   eventloop_lock, connected, sent_subs, started, caller_vars,
                   queue_vars, dispatch_vars, hist_pub, sub_ok, issued, hist_disp>>

\* Lines 58-61: lock the set, insert, return Ok(()).
SubscribeInsert(c) ==
    /\ cpc[c] = "sub_insert"
    /\ subscribed_topics' = Insert(subscribed_topics, ctopic[c])
    /\ sub_ok' = sub_ok \cup {ctopic[c]}
    /\ ctopic' = [ctopic EXCEPT ![c] = ""]
    /\ cpc' = [cpc EXCEPT ![c] = "idle"]
    /\ UNCHANGED <<msg_counter, counter_lock, chan, rx_lock, requests,
                   eventloop_lock, connected, sent_subs, started, cmsg,
                   queue_vars, dispatch_vars, hist_pub, sub_err, issued, hist_disp>>

(***************************************************************************)
(* The dispatch task (rumqtt.rs:145-174).                                  *)
(***************************************************************************)
\* Line 148: `eventloop.lock().await`
DLock(k) ==
    /\ dpc[k] = "lock"
    /\ eventloop_lock = NoTask
    /\ eventloop_lock' = k
    /\ dpc' = [dpc EXCEPT ![k] = "poll"]
    /\ UNCHANGED <<msg_counter, counter_lock, chan, rx_lock, subscribed_topics,
                   requests, connected, sent_subs, started, caller_vars,
                   queue_vars, devent, dtodo, hist_pub, hist_sub, hist_disp>>

\* The eventloop guard is kept after the poll.
PollReturnsHoldingLock(k, event) ==
    /\ eventloop_lock' = eventloop_lock
    /\ devent' = [devent EXCEPT ![k] = event]
    /\ dpc' = [dpc EXCEPT ![k] =
                 IF NeedsResubscribe(event) THEN "resubscribe" ELSE "callback"]
    /\ dsnap' = [dsnap EXCEPT ![k] = {}]
    /\ resub_count' = [resub_count EXCEPT ![k] = ZeroCount]
    /\ UNCHANGED <<msg_counter, counter_lock, chan, rx_lock, subscribed_topics,
                   started, caller_vars, queue_vars, dtodo, hist_pub, sub_ok,
                   sub_err, issued>>

\* The poll of line 149 returned Ok(event): the eventloop guard is dropped at
\* line 150 and the match of lines 152-165 runs.  For a ConnAck with
\* session_present the task calls resubscribe_all (line 159), whose first
\* await is the lock of the set; for every other event nothing awaits
\* between the poll and the call of the callback (line 166).
PollReturns(k, event) ==
    /\ eventloop_lock' = NoTask
    /\ devent' = [devent EXCEPT ![k] = event]
    /\ dpc' = [dpc EXCEPT ![k] =
                 IF NeedsResubscribe(event) THEN "resubscribe" ELSE "callback"]
    /\ dsnap' = [dsnap EXCEPT ![k] = {}]
    /\ resub_count' = [resub_count EXCEPT ![k] = ZeroCount]
    /\ UNCHANGED <<msg_counter, counter_lock, chan, rx_lock, subscribed_topics,
                   started, caller_vars, queue_vars, dtodo, hist_pub, sub_ok,
                   sub_err, issued>>

\* Line 149: poll() of an engine without a connection connects and returns
\* the broker's ConnAck; the broker decides session_present.
DPollConnAck(k, sp) ==
    /\ dpc[k] = "poll"
    /\ ~connected
    /\ connected' = TRUE
    /\ PollReturns(k, ConnAck(sp))
    /\ UNCHANGED <<requests, sent_subs>>

\* Line 149: poll() takes one request off the request channel, writes it to
\* the network and returns Outgoing.
DPollOutgoing(k) ==
    /\ dpc[k] = "poll"
    /\ connected
    /\ requests # <<>>
    /\ requests' = Tail(requests)
    /\ sent_subs' = IF Head(requests).kind = "Subscribe"
                    THEN sent_subs \cup {Head(requests).topic}
                    ELSE sent_subs
    /\ PollReturns(k, OutgoingEvent)
    /\ UNCHANGED connected

\* Line 149: poll() returns a publish received from the broker.
DPollIncomingPublish(k) ==
    /\ dpc[k] = "poll"
    /\ connected
    /\ PollReturns(k, IncomingPublish)
    /\ UNCHANGED <<requests, connected, sent_subs>>

\* Line 149: poll() returns the broker's SubAck of a subscribe request.
DPollSubAck(k, topic) ==
    /\ dpc[k] = "poll"
    /\ connected
    /\ topic \in sent_subs
    /\ sent_subs' = sent_subs \ {topic}
    /\ PollReturns(k, IncomingSubAck)
    /\ UNCHANGED <<requests, connected>>

\* Lines 149, 168-170: poll() returns Err (connect failed or connection
\* lost); the engine drops its connection and the task goes to sleep.
DPollError(k) ==
    /\ dpc[k] = "poll"
    /\ connected' = FALSE
    /\ sent_subs' = {}
    /\ eventloop_lock' = NoTask
    /\ dpc' = [dpc EXCEPT ![k] = "sleep"]
    /\ UNCHANGED <<msg_counter, counter_lock, chan, rx_lock, subscribed_topics,
                   requests, started, caller_vars, queue_vars, devent, dtodo,
                   hist_pub, sub_ok, sub_err, issued, hist_disp>>

\* The task returns after the sleep.
DSleepExit(k) ==
    /\ dpc[k] = "sleep"
    /\ dpc' = [dpc EXCEPT ![k] = "off"]
    /\ UNCHANGED <<mgr_vars, caller_vars, queue_vars, devent, dtodo, hist_pub,
                   hist_sub, hist_disp>>
\* Line 170: the 5 s sleep ends; next iteration of the loop.
DSleep(k) ==
    /\ dpc[k] = "sleep"
    /\ dpc' = [dpc EXCEPT ![k] = "lock"]
    /\ UNCHANGED <<mgr_vars, caller_vars, queue_vars, devent, dtodo, hist_pub,
                   hist_sub, hist_disp>>

\* Lines 116-119: resubscribe_all locks the set, takes its snapshot and
\* releases the lock.
DSnapshot(k) ==
    /\ dpc[k] = "resubscribe"
    /\ dtodo' = [dtodo EXCEPT ![k] = Snapshot(subscribed_topics)]
    /\ dsnap' = [dsnap EXCEPT ![k] = subscribed_topics]
    /\ dpc' = [dpc EXCEPT ![k] = IF dtodo'[k] = {} THEN "callback" ELSE "resub"]
    /\ UNCHANGED <<mgr_vars, caller_vars, queue_vars, devent, hist_pub,
                   hist_sub, resub_count>>

\* The loop of lines 121-127 advances past `topic`.
ResubAdvance(k, topic) ==
    /\ dtodo' = [dtodo EXCEPT ![k] = Remaining(dtodo[k], topic)]
    /\ resub_count' = [resub_count EXCEPT ![k][topic] = @ + 1]
    /\ dpc' = [dpc EXCEPT ![k] = IF dtodo'[k] = {} THEN "callback" ELSE "resub"]
    /\ UNCHANGED <<msg_counter, counter_lock, chan, rx_lock, subscribed_topics,
                   eventloop_lock, connected, sent_subs, started, caller_vars,
                   queue_vars, devent, hist_pub, hist_sub, dsnap>>

\* Lines 122, 124-125: client.subscribe(&topic, AtLeastOnce) returns Ok (the
\* request is on the request channel; it waits while that channel is full).
DResubOk(k, topic) ==
    /\ dpc[k] = "resub"
    /\ topic \in dtodo[k]
    /\ Len(requests) < RequestCapacity
    /\ requests' = Append(requests, Request("Subscribe", topic, ResubscribeQoS))
    /\ ResubAdvance(k, topic)

\* Lines 122-123: client.subscribe returns Err; logged, the loop goes on.
DResubErr(k, topic) ==
    /\ dpc[k] = "resub"
    /\ topic \in dtodo[k]
    /\ requests' = requests
    /\ ResubAdvance(k, topic)

\* Line 166: `callback(event)` returns; next iteration of the loop.
DCallback(k) ==
    /\ dpc[k] = "callback"
    /\ devent' = [devent EXCEPT ![k] = NoEvent]
    /\ dpc' = [dpc EXCEPT ![k] = "lock"]
    /\ UNCHANGED <<mgr_vars, caller_vars, queue_vars, dtodo, hist_pub, hist_sub,
                   hist_disp>>

(***************************************************************************)
(* Specifications.                                                         *)
(***************************************************************************)
EnqueuePublish ==
    \/ \E c \in Callers, t \in PublishTopics, p \in Payloads, q \in PublishQoS :
          EnqueueTakeId(c, t, p, q)
    \/ \E c \in Callers : EnqueueSend(c)

Subscribe ==
    \/ \E c \in Callers, t \in Topics, q \in QoS : SubscribeRequestOk(c, t, q)
    \/ \E c \in Callers, t \in Topics, q \in QoS : SubscribeRequestErr(c, t, q)
    \/ \E c \in Callers : SubscribeInsert(c)

ProcessQueue ==
    \/ \E k \in Tasks : QLock(k)
    \/ \E k \in Tasks : QRecv(k)
    \/ \E k \in Tasks : QPublishOk(k)
    \/ \E k \in Tasks : QPublishErr(k)
    \/ \E k \in Tasks : QResend(k)
    \/ \E k \in Tasks : QThrottle(k)

Dispatch ==
    \/ \E k \in Tasks : DLock(k)
    \/ \E k \in Tasks, sp \in BOOLEAN : DPollConnAck(k, sp)
    \/ \E k \in Tasks : DPollOutgoing(k)
    \/ \E k \in Tasks : DPollIncomingPublish(k)
    \/ \E k \in Tasks : DPollError(k)
    \/ \E k \in Tasks : DSleep(k)
    \/ \E k \in Tasks : DSnapshot(k)
    \/ \E k \in Tasks : DCallback(k)

Resubscribe ==
    \/ \E k \in Tasks, t \in Topics : DPollSubAck(k, t)
    \/ \E k \in Tasks, t \in Topics : DResubOk(k, t)
    \/ \E k \in Tasks, t \in Topics : DResubErr(k, t)

\* The whole manager.
Next == EnqueuePublish \/ Subscribe \/ (\E k \in Tasks : StartEventLoop(k))
           \/ ProcessQueue \/ Dispatch \/ Resubscribe
Spec == Init /\ [][Next]_vars

\* The publish pipeline: the application starts the event loop once and
\* only enqueues publishes.
NextQueue == EnqueuePublish \/ StartEventLoop(1) \/ ProcessQueue \/ Dispatch
SpecQueue == Init /\ [][NextQueue]_vars

\* The subscription side: the application starts the event loop once and
\* only subscribes; the queue task takes the rx lock and waits in recv().
NextSub == Subscribe \/ StartEventLoop(1) \/ (\E k \in Tasks : QLock(k))
              \/ Dispatch \/ Resubscribe
SpecSub == Init /\ [][NextSub]_vars

\* The application calls start_event_loop more than once (the method takes
\* &self and can be called on the manager or any clone); only the queue
\* tasks are scheduled.
NextRestart ==
    EnqueuePublish \/ (\E k \in Tasks : StartEventLoop(k)) \/ ProcessQueue
SpecRestart == Init /\ [][NextRestart]_vars

\* The application uses the manager without having called start_event_loop:
\* no background task exists, nothing drains the two channels.
NextBeforeStart == EnqueuePublish \/ Subscribe
SpecBeforeStart == Init /\ [][NextBeforeStart]_vars


(***************************************************************************)
(* Fair scheduling.  Every spawned task that can take a step eventually    *)
(* takes one (the runtime polls every ready task), and a sender waiting on *)
(* a channel gets a slot if slots keep becoming free (the channel serves   *)
(* its waiters in arrival order).  Whether a publish, a subscribe or a     *)
(* poll fails is the environment's choice: no fairness is assumed for the  *)
(* failing outcomes, and a call that waits is not rescued by a failure.    *)
(***************************************************************************)
QueueProgress(k) ==
    QLock(k) \/ QRecv(k) \/ QPublishOk(k) \/ QResend(k) \/ QThrottle(k)

DispatchProgress(k) ==
    \/ DLock(k) \/ DPollOutgoing(k) \/ DSleep(k) \/ DSnapshot(k) \/ DCallback(k)
    \/ \E sp \in BOOLEAN : DPollConnAck(k, sp)
    \/ \E t \in Topics : DResubOk(k, t)

TaskFairness ==
    /\ WF_vars(StartEventLoop(1))
    /\ \A k \in Tasks : WF_vars(QueueProgress(k)) /\ SF_vars(QResend(k))
    /\ \A k \in Tasks : WF_vars(DispatchProgress(k)) /\ SF_vars(DPollOutgoing(k))

FairSpecQueue ==
    SpecQueue /\ TaskFairness /\ \A c \in Callers : SF_vars(EnqueueSend(c))

FairSpecSub ==
    SpecSub /\ TaskFairness /\ \A c \in Callers : WF_vars(SubscribeInsert(c))

FairSpecBeforeStart ==
    /\ SpecBeforeStart
    /\ \A c \in Callers : SF_vars(EnqueueSend(c)) /\ WF_vars(SubscribeInsert(c))

(***************************************************************************)
(* Observations used by the claims.                                        *)
(***************************************************************************)
Ids == 1..MaxEnqueue

\* The message with this id has been handed to the channel by enqueue_publish.
Accepted(i) == i <= msg_counter /\ \A c \in Callers : cmsg[c].id # i

\* Number of PendingMessage entries with this id that exist anywhere: in a
\* caller's hands, in the channel, in a queue task's hands.
Occurrences(i) ==
    Cardinality({j \in 1..Len(chan) : chan[j].id = i})
        + Cardinality({k \in Tasks : qmsg[k].id = i})
        + Cardinality({c \in Callers : cmsg[c].id = i})

\* A subscribe request for the topic is on its way and the broker's SubAck
\* has not been received.
AwaitingAck(t) ==
    \/ \E j \in 1..Len(requests) :
          requests[j].kind = "Subscribe" /\ requests[j].topic = t
    \/ t \in sent_subs

(***************************************************************************)
(* Claims.                                                                 *)
(***************************************************************************)
\* C1: under fair scheduling every message accepted by enqueue_publish is
\* eventually published successfully or dropped after its retries, also when
\* the channel becomes full.
C1_EventuallyPublishedOrDropped ==
    \A i \in Ids : Accepted(i) ~> (i \in published \cup dropped)

\* C2: no message is attempted more than 6 times (1 initial + 5 retries).
C2_AtMostSixAttempts ==
    \A i \in Ids : attempts[i] <= MaxRetries + 1

C2_Witness ==
    \E i, j \in Ids :
        /\ i # j
        /\ attempts[i] = MaxRetries + 1 /\ i \in dropped
        /\ attempts[j] > 0

\* C3, what holds in every state: a message is dropped only after exactly 6
\* attempts, none of which succeeded; once dropped it is nowhere in the
\* pipeline; and if it was the only message the channel is empty.
C3_DroppedAfterSix ==
    \A i \in dropped :
        /\ attempts[i] = MaxRetries + 1
        /\ i \notin published
        /\ Occurrences(i) = 0
        /\ (msg_counter = 1 => chan = <<>>)

\* C3: a message whose attempts all fail gets exactly 6 attempts and is then
\* dropped, never to be re-enqueued or attempted again; the channel is empty
\* afterwards when no other message was enqueued.
C3_SixAttemptsThenDropped ==
    /\ []C3_DroppedAfterSix
    /\ \A i \in Ids :
          Accepted(i) ~> \/ i \in published
                         \/ i \in dropped /\ attempts[i] = MaxRetries + 1

\* C4: the counter changes only by +1, in the step in which an
\* enqueue_publish call takes the counter lock and its id, and the id taken
\* is larger than every id taken before.
C4_IdsStrictlyIncrease ==
    [][/\ msg_counter' >= msg_counter
       /\ (msg_counter' # msg_counter) <=> (id_log' # id_log)
       /\ id_log' # id_log =>
            /\ msg_counter' = msg_counter + 1
            /\ counter_lock = NoHolder /\ counter_lock' \in Callers
            /\ id_log' = Append(id_log, msg_counter')
            /\ \A j \in 1..Len(id_log) : id_log[j] < msg_counter'
            /\ cmsg'[counter_lock'].id = msg_counter']_vars

C4_Witness ==
    /\ Len(id_log) = MaxEnqueue
    /\ \E c \in Callers : cpc[c] = "enq_send" /\ cmsg[c].id = MaxEnqueue
    /\ Len(chan) = ChannelCapacity

\* C5: every id handed out belongs to exactly one PendingMessage until that
\* message is published or dropped (no de-duplication, no id shared by two
\* calls, a retried message keeps its id), and ids not yet handed out belong
\* to none.
C5_DistinctIndependentEntries ==
    /\ Len(id_log) = msg_counter
    /\ \A a, b \in 1..Len(id_log) : a # b => id_log[a] # id_log[b]
    /\ \A i \in Ids :
          Occurrences(i) = IF i <= msg_counter /\ i \notin published \cup dropped
                           THEN 1 ELSE 0

C5_Witness ==
    /\ Len(chan) = 2
    /\ chan[1].topic = chan[2].topic /\ chan[1].payload = chan[2].payload
    /\ chan[1].id # chan[2].id
    /\ chan[1].retries > 0 /\ chan[2].retries > chan[1].retries

\* C6: a topic for which a subscribe call has returned success is in the
\* SubscriptionSet, in that state and ever after.
C6_SubscribedTopicsStay ==
    sub_ok \subseteq subscribed_topics

C6_Witness ==
    /\ sub_ok = Topics
    /\ \E k \in Tasks : dsnap[k] # {} /\ dpc[k] = "callback"

\* C7: the step in which a subscribe call fails leaves the SubscriptionSet
\* unchanged, returns to the caller and puts no request on the request
\* channel (nothing is retried).
C7_FailedSubscribeChangesNothing ==
    [][sub_err' # sub_err =>
          /\ subscribed_topics' = subscribed_topics
          /\ requests' = requests
          /\ cpc' = cpc /\ ctopic' = ctopic
          /\ sub_ok' = sub_ok /\ issued' = issued]_vars

C7_Witness ==
    \E t \in sub_err : t \notin subscribed_topics /\ ~AwaitingAck(t)

\* C8 as claimed: no topic is in the SubscriptionSet while a subscribe
\* request for it is still waiting for the broker's acknowledgement.
C8_InsertedOnlyAfterBrokerAck ==
    \A t \in subscribed_topics : ~AwaitingAck(t)

\* C8 as amended: a topic is in the SubscriptionSet only if the client has
\* accepted a subscribe request for it (client.subscribe returned Ok); the
\* broker's acknowledgement may still be outstanding.
C8_InsertedOnlyAfterRequestAccepted ==
    subscribed_topics \subseteq issued

C8_Witness ==
    \E t \in subscribed_topics :
        /\ \E j \in 1..Len(requests) :
              requests[j].kind = "Subscribe" /\ requests[j].topic = t
        /\ t \notin sent_subs

\* C9, what holds in every state: no topic is requested twice for one
\* resumption event, only snapshot topics are requested, and when the
\* callback is reached every snapshot topic has been requested once.
C9_OncePerSnapshotTopic ==
    \A k \in Tasks, t \in Topics :
        /\ resub_count[k][t] <= (IF t \in dsnap[k] THEN 1 ELSE 0)
        /\ (dpc[k] = "callback" /\ devent[k] = ConnAck(TRUE) /\ t \in dsnap[k])
              => resub_count[k][t] = 1

\* C9: after a ConnAck with session_present = true, a resubscribe request is
\* attempted for every topic of the snapshot, exactly once each.
C9_ResubscribeEveryTopicOnce ==
    /\ []C9_OncePerSnapshotTopic
    /\ \A k \in Tasks :
          (devent[k] = ConnAck(TRUE)) ~>
              \/ /\ dpc[k] = "callback"
                 /\ \A t \in Topics :
                       resub_count[k][t] = IF t \in dsnap[k] THEN 1 ELSE 0
              \* the request for the last topic is being made
              \/ dpc[k] = "resub" /\ Cardinality(dtodo[k]) = 1

\* C10: while the dispatch task holds a ConnAck with session_present = false
\* it is in the callback with that event and has issued no resubscribe
\* request for it.
C10_NoResubscribeOnNewSession ==
    \A k \in Tasks :
        devent[k] = ConnAck(FALSE) =>
            /\ dpc[k] = "callback"
            /\ resub_count[k] = ZeroCount
            /\ dsnap[k] = {}

C10_Witness ==
    \E k \in Tasks :
        /\ devent[k] = ConnAck(FALSE) /\ dpc[k] = "callback"
        /\ subscribed_topics = Topics

\* C11: while the dispatch task holds a ConnAck with session_present = true
\* it is in resubscribe_all or in the callback; it is in the callback only
\* when no topic of the snapshot is left to request (each request has
\* returned Ok or Err), and it is inside the loop of resubscribe_all exactly
\* while some topic is left.
C11_CallbackAfterEveryRequest ==
    \A k \in Tasks :
        devent[k] = ConnAck(TRUE) =>
            /\ dpc[k] \in {"resubscribe", "resub", "callback"}
            /\ (dpc[k] = "resub") <=> (dtodo[k] # {})
            /\ dpc[k] = "callback" =>
                  \A t \in dsnap[k] : t \notin dtodo[k] /\ resub_count[k][t] > 0

C11_Witness ==
    \E k \in Tasks :
        /\ devent[k] = ConnAck(TRUE) /\ dpc[k] = "callback"
        /\ dsnap[k] = Topics
        /\ \A t \in Topics : resub_count[k][t] = 1
        /\ requests = <<>>

\* C12: under fair scheduling, whenever the dispatch task has received a
\* ConnAck with session_present = true, resubscribe_all returns and the task
\* reaches the callback with that event, whatever the request channel holds.
C12_ResubscriptionCompletes ==
    \A k \in Tasks :
        (devent[k] = ConnAck(TRUE) /\ dpc[k] \in {"resubscribe", "resub"})
            ~> (devent[k] = ConnAck(TRUE) /\ dpc[k] = "callback")

\* C13, what holds in every step: a dispatch task holds an event exactly
\* from the return of the poll that delivered it to the return of the
\* callback; the held event is never altered or replaced, the task does not
\* poll again while it holds one, and the callback step hands over the held
\* event and nothing else.
C13_AtMostOnceInOrder ==
    [][\A k \in Tasks :
          /\ (devent[k] # NoEvent) <=>
                (dpc[k] \in {"resubscribe", "resub", "callback"})
          /\ devent'[k] # devent[k] =>
                \/ /\ dpc[k] = "poll" /\ devent[k] = NoEvent
                   /\ dpc'[k] \in {"resubscribe", "callback"}
                \/ /\ dpc[k] = "callback" /\ devent'[k] = NoEvent
                   /\ dpc'[k] = "lock"
          /\ (dpc[k] = "callback" /\ dpc'[k] # "callback") =>
                devent[k] # NoEvent /\ devent'[k] = NoEvent]_vars

\* C13: every event returned by a successful poll is handed to the callback
\* exactly once, unchanged and in the order of delivery: the steps above, and
\* under fair scheduling every event held by a dispatch task reaches the
\* callback.
C13_EveryEventForwardedOnce ==
    /\ C13_AtMostOnceInOrder
    /\ \A k \in Tasks : (devent[k] # NoEvent) ~> (dpc[k] = "callback")

\* C19, a run without failed attempts: no attempt has returned Err so far.
NoAttemptFailed ==
    /\ dropped = {}
    /\ \A i \in Ids : attempts[i] = IF i \in published THEN 1 ELSE 0

\* C19: as long as no publish attempt has failed, the messages attempted so
\* far are the first ones enqueued (ids 1..n without a gap), the channel
\* holds its messages in increasing id order, and every message still in the
\* channel or in a task's hands has a larger id than every attempted one: the
\* attempts happen in enqueue order, which is the order of the ids.
C19_FifoWithoutFailures ==
    NoAttemptFailed =>
        /\ \A i \in published : \A j \in Ids : j < i => j \in published
        /\ \A a, b \in 1..Len(chan) : a < b => chan[a].id < chan[b].id

\* C14: a dispatch task, once started, never leaves its loop; the step in
\* which poll returns an error releases the engine lock and puts the task to
\* sleep with no event in hand, no request issued, no snapshot taken and the
\* SubscriptionSet untouched; the only step out of the sleep is back to the
\* lock of the engine, and the only step from there is the next poll.
C14_PollErrorKeepsLooping ==
    [][\A k \in Tasks :
          /\ dpc[k] # "off" => dpc'[k] # "off"
          /\ (dpc[k] = "poll" /\ dpc'[k] = "sleep") =>
                /\ devent'[k] = NoEvent /\ eventloop_lock' = NoTask
                /\ requests' = requests /\ dtodo' = dtodo
                /\ hist_disp' = hist_disp
                /\ subscribed_topics' = subscribed_topics
          /\ (dpc[k] = "sleep" /\ dpc'[k] # "sleep") =>
                dpc'[k] = "lock" /\ devent'[k] = NoEvent
          /\ (dpc[k] = "lock" /\ dpc'[k] # "lock") => dpc'[k] = "poll"
          /\ dpc'[k] \in {"resubscribe", "resub", "callback"} =>
                dpc[k] # "sleep" /\ devent'[k] # NoEvent]_vars

C14_Witness ==
    \E k \in Tasks :
        /\ dpc[k] = "sleep" /\ ~connected
        /\ subscribed_topics = Topics
        /\ Len(requests) = RequestCapacity

\* C14, progress: under fair scheduling a task that sleeps after a poll
\* error polls again.
C14_PollsAgain ==
    \A k \in Tasks : (dpc[k] = "sleep") ~> (dpc[k] = "poll")

\* C15: under fair scheduling every enqueue_publish call returns to its
\* caller, also when the publish channel is full and stays full.
C15_FullChannelCallTerminates ==
    \A c \in Callers :
        (cpc[c] = "enq_send" /\ Len(chan) = ChannelCapacity)
            ~> (cpc[c] = "idle")

\* C15, what holds in every step: the outcome of a publish attempt (success,
\* retry or drop) changes nothing in any caller of enqueue_publish.
C15_AttemptFailuresNotSurfaced ==
    [][(attempts' # attempts \/ dropped' # dropped) =>
          cpc' = cpc /\ cmsg' = cmsg /\ counter_lock' = counter_lock]_vars

\* C16: the channel never holds more than its capacity, fresh and
\* re-enqueued messages together; a call that has built its message keeps
\* waiting while the channel is full, and a message leaves its caller's
\* hands only by being appended to the channel (it is never rejected or
\* discarded at enqueue time).
C16_BoundedChannelBlocksProducers ==
    [][/\ Len(chan) <= ChannelCapacity /\ Len(chan') <= ChannelCapacity
       /\ \A c \in Callers :
             (cpc[c] = "enq_send" /\ cpc'[c] # "enq_send") =>
                /\ Len(chan) < ChannelCapacity
                /\ chan' = Append(chan, cmsg[c])
                /\ cpc'[c] = "idle"
       /\ \A c \in Callers :
             cpc[c] = "enq_send" => Occurrences(cmsg[c].id) = 1]_vars

C16_Witness ==
    \E c \in Callers :
        /\ cpc[c] = "idle" /\ msg_counter = MaxEnqueue
        /\ Len(chan) = ChannelCapacity
        /\ chan[ChannelCapacity].id = MaxEnqueue
        /\ \E j \in 1..Len(chan) : chan[j].retries > 0

\* C17: no call is blocked on the full publish channel while it holds the
\* MessageCounter lock.
C17_NoCounterLockAcrossSend ==
    \A c \in Callers :
        (cpc[c] = "enq_send" /\ Len(chan) = ChannelCapacity)
            => counter_lock # c

\* C18: the queue task does not hold the receiver lock while it waits in
\* recv() on the empty channel, and the dispatch task does not hold the
\* engine lock while it waits in poll() for the network.
C18_NoLockAtSuspension ==
    \A k \in Tasks :
        /\ (qpc[k] = "recv" /\ chan = <<>>) => rx_lock # k
        /\ (dpc[k] = "poll" /\ connected /\ requests = <<>>)
              => eventloop_lock # k

\* C18, what holds in every state: during the backoff and throttle sleeps,
\* the publish, resubscribe_all, the callback and the sleep after a poll
\* error the task holds neither lock.
C18_NoLockWhileSleeping ==
    \A k \in Tasks :
        /\ qpc[k] \in {"publish", "backoff", "throttle"} => rx_lock # k
        /\ dpc[k] \in {"resubscribe", "resub", "callback", "sleep"}
              => eventloop_lock # k

\* C20: the step that re-enqueues a failed message appends it at the tail
\* of the channel, and no message gets an attempt while a message that was
\* in the channel when it was re-enqueued has not had its attempt since.
C20_RetriedMessageGoesLast ==
    [][/\ \A k \in Tasks :
             (qpc[k] = "backoff" /\ qpc'[k] # "backoff") =>
                /\ qmsg[k].retries \in 1..MaxRetries
                /\ chan' = Append(chan, qmsg[k])
       /\ \A i \in Ids : attempts'[i] # attempts[i] => ahead[i] = {}]_vars

\* C21: a message is published before a message enqueued earlier only when
\* an attempt of the earlier one has failed: with one queue task, if id j is
\* published while a smaller id i is not, i has had at least one attempt (a
\* failed one).  The witness is the execution of the claim: m1 enqueued
\* before m2, an attempt of m1 failed, m2 published, m1 not yet.
C21_OvertakingOnlyByRetry ==
    \A i, j \in Ids :
        (i < j /\ j \in published /\ i \notin published) => attempts[i] >= 1

C21_Witness ==
    /\ Len(id_log) >= 2 /\ id_log[1] = 1 /\ id_log[2] = 2
    /\ 2 \in published
    /\ 1 \notin published \cup dropped
    /\ attempts[1] >= 1
    /\ \E j \in 1..Len(chan) : chan[j].id = 1 /\ chan[j].retries >= 1

\* C22: a message in a caller's hands has retry count 0; every message in
\* the channel or in a queue task's hands has a retry count in 0..5, equal to
\* the number of failed attempts made for its id (nothing but a failed
\* attempt of the queue task changes it); the step from a failed attempt to
\* the backoff adds exactly 1 and keeps topic, payload, qos and id, and the
\* re-send puts that very message on the channel.
C22_RetryCountDiscipline ==
    [][/\ \A c \in Callers : cmsg'[c].retries = 0
       /\ \A j \in 1..Len(chan') :
             /\ chan'[j].retries \in 0..MaxRetries
             /\ chan'[j].retries = attempts'[chan'[j].id]
       /\ \A k \in Tasks :
             /\ qmsg'[k].retries \in 0..MaxRetries
             /\ qmsg'[k] # NoMsg => qmsg'[k].retries = attempts'[qmsg'[k].id]
             /\ (qpc[k] = "publish" /\ qpc'[k] = "backoff") =>
                   /\ qmsg'[k].retries = qmsg[k].retries + 1
                   /\ qmsg'[k].topic = qmsg[k].topic
                   /\ qmsg'[k].payload = qmsg[k].payload
                   /\ qmsg'[k].qos = qmsg[k].qos
                   /\ qmsg'[k].id = qmsg[k].id
             /\ (qpc[k] = "backoff" /\ qpc'[k] = "lock") =>
                   /\ Len(chan') = Len(chan) + 1
                   /\ chan'[Len(chan')] = qmsg[k]]_vars

C22_Witness ==
    /\ \E j \in 1..Len(chan) : chan[j].retries = MaxRetries
    /\ \E j \in 1..Len(chan) : chan[j].retries = 1
    /\ \E c \in Callers : cmsg[c].id = MaxEnqueue /\ cmsg[c].retries = 0

\* C23: the SubscriptionSet is empty after construction; no step removes a
\* topic from it, and the only step that adds one is the insert of a
\* subscribe call whose request the client has accepted, which then returns
\* Ok.
C23_SubscriptionSetOnlyGrows ==
    /\ subscribed_topics = {}
    /\ [][/\ subscribed_topics \subseteq subscribed_topics'
          /\ subscribed_topics' # subscribed_topics =>
                \E c \in Callers :
                    /\ cpc[c] = "sub_insert" /\ cpc'[c] = "idle"
                    /\ subscribed_topics' = subscribed_topics \cup {ctopic[c]}
                    /\ sub_ok' = sub_ok \cup {ctopic[c]}
                    /\ sub_err' = sub_err]_vars

C23_Witness ==
    /\ subscribed_topics = Topics
    /\ sub_err # {}
    /\ ~connected
    /\ \E k \in Tasks :
          /\ dpc[k] = "sleep"
          /\ \E t \in Topics : resub_count[k][t] = 1

\* C24: every request that resubscribe_all puts on the request channel is a
\* subscribe request for a snapshot topic with QoS AtLeastOnce, whatever QoS
\* the topic was subscribed with.
C24_ResubscribeAtLeastOnce ==
    [][\A k \in Tasks :
          (dpc[k] = "resub" /\ resub_count'[k] # resub_count[k]
              /\ requests' # requests) =>
             \E t \in dsnap[k] :
                 requests' = Append(requests,
                                    Request("Subscribe", t, "AtLeastOnce"))]_vars

\* The original request (ExactlyOnce) and the resubscribe request
\* (AtLeastOnce) for the same topic are both on the request channel.
C24_Witness ==
    /\ Len(requests) = 2
    /\ requests[1].topic = requests[2].topic
    /\ requests[1].qos = "ExactlyOnce"
    /\ requests[2].qos = "AtLeastOnce"
    /\ \E k \in Tasks :
          /\ devent[k] = ConnAck(TRUE) /\ dpc[k] = "callback"
          /\ resub_count[k][requests[2].topic] = 1

\* C25, what holds in every step: a resubscribe request that fails puts
\* nothing on the request channel, removes only its own topic from the
\* topics left to request, leaves the SubscriptionSet as it is and keeps the
\* event in the task's hands.
C25_FailureKeepsTheRest ==
    [][\A k \in Tasks :
          (dpc[k] = "resub" /\ resub_count'[k] # resub_count[k]
              /\ requests' = requests) =>
             /\ \E t \in dtodo[k] :
                   /\ dtodo'[k] = dtodo[k] \ {t}
                   /\ resub_count'[k][t] = 1
             /\ subscribed_topics' = subscribed_topics
             /\ devent'[k] = devent[k]
             /\ dpc'[k] = IF dtodo'[k] = {} THEN "callback" ELSE "resub"]_vars

\* C25: under fair scheduling, once the first resubscribe request of a
\* resumption has returned (Ok or Err), a request is attempted for every
\* other snapshot topic, the snapshot topics are still in the
\* SubscriptionSet and the event reaches the callback.
C25_RemainingTopicsStillRequested ==
    /\ C25_FailureKeepsTheRest
    /\ \A k \in Tasks :
          (dpc[k] = "resub" /\ \E t \in Topics : resub_count[k][t] = 1)
             ~> /\ dpc[k] = "callback" /\ devent[k] = ConnAck(TRUE)
                /\ \A t \in dsnap[k] :
                      resub_count[k][t] = 1 /\ t \in subscribed_topics

\* Tasks running: spawned by some start_event_loop call.
QueueTasks == {k \in Tasks : qpc[k] # "off"}
DispatchTasks == {k \in Tasks : dpc[k] # "off"}

\* C26: whatever public calls have been made, at most one queue task
\* consumes the channel and at most one dispatch task polls the engine.
C26_TasksSpawnedOnce ==
    Cardinality(QueueTasks) <= 1 /\ Cardinality(DispatchTasks) <= 1

\* C26, what holds in every state: each start_event_loop call has spawned
\* one queue task and one dispatch task.
C26_OnePairPerStart ==
    Cardinality(QueueTasks) = started /\ Cardinality(DispatchTasks) = started

\* C27: under fair scheduling every subscribe or enqueue_publish call made
\* before start_event_loop has been called returns to its caller, however
\* many calls were made before it.
C27_CallsBeforeStartReturn ==
    \A c \in Callers :
        (started = 0 /\ cpc[c] # "idle") ~> (cpc[c] = "idle")

\* C27, what holds in every state before the start: nothing has been taken
\* off either channel, so the calls that returned have left exactly their
\* messages and requests there, within the two capacities.
C27_NothingLostBeforeStart ==
    started = 0 =>
        /\ Len(chan) <= ChannelCapacity /\ Len(requests) <= RequestCapacity
        /\ \A i \in Ids : Accepted(i) => \E j \in 1..Len(chan) : chan[j].id = i
        /\ \A t \in issued :
              \E j \in 1..Len(requests) :
                  requests[j].kind = "Subscribe" /\ requests[j].topic = t

\* C28: a dispatch task holds the engine lock exactly while it is in poll;
\* in resubscribe_all and in the callback it holds no lock, and while it has
\* an event in hand (until the callback has returned) it neither polls nor
\* asks for the engine lock.
C28_CallbackOutsideEngineLock ==
    \A k \in Tasks :
        /\ (eventloop_lock = k) <=> (dpc[k] = "poll")
        /\ dpc[k] \in {"resubscribe", "resub", "callback"} =>
              /\ eventloop_lock # k
              /\ devent[k] # NoEvent
        /\ dpc[k] \in {"lock", "poll", "sleep"} => devent[k] = NoEvent

C28_Witness ==
    \E k \in Tasks :
        /\ dpc[k] = "callback" /\ devent[k] = ConnAck(TRUE)
        /\ dsnap[k] = Topics
        /\ eventloop_lock = NoTask
        /\ requests # <<>>

\* C29: under fair scheduling the publish pipeline never gets stuck: a queue
\* task that wants to re-send a failed message gets it onto the channel, and
\* a producer that has built its message gets it onto the channel.
C29_PipelineDeadlockFree ==
    /\ \A k \in Tasks : (qpc[k] = "backoff") ~> (qpc[k] = "lock")
    /\ \A c \in Callers : (cpc[c] = "enq_send") ~> (cpc[c] = "idle")

\* C30: at most one call is between taking its id and putting its message on
\* the channel, that call holds the counter lock, its id is the newest one,
\* and the fresh messages (retry count 0) in the channel are in strictly
\* increasing id order.
C30_IdAndInsertAtomic ==
    /\ \A c, d \in Callers :
          (cpc[c] = "enq_send" /\ cpc[d] = "enq_send") => c = d
    /\ \A c \in Callers :
          cpc[c] = "enq_send" =>
             counter_lock = c /\ cmsg[c].id = msg_counter
    /\ \A a, b \in 1..Len(chan) :
          (a < b /\ chan[a].retries = 0 /\ chan[b].retries = 0)
             => chan[a].id < chan[b].id

C30_Witness ==
    /\ Len(chan) = 2
    /\ chan[1].retries = 0 /\ chan[2].retries = 0
    /\ \E c \in Callers :
          cpc[c] = "enq_send" /\ counter_lock = c /\ cmsg[c].id = MaxEnqueue

=============================================================================
